---- MODULE Spec2Model ----
(***************************************************************************)
(* A fleet of bringup workers (worker.py) that poll ready tickets, claim   *)
(* one through the ticket's comment stream, run a check-driven task with   *)
(* bounded retries (tasks/functional_bringup.py on top of codexapi.Task)   *)
(* and record the outcome in the project's Status field (github.py).       *)
(***************************************************************************)
EXTENDS Integers, Sequences, FiniteSets, TLC

\* ------------------------------------------------------------------ bounds
\* run_once calls one worker process makes before the model stops following it
MaxCycles == 2
\* the attempt budget handed to the task (YT_MAX_ATTEMPTS)
MaxAttempts == 2

\* ------------------------------------------------------------- the universe
Workers == {"w1", "w2"}
Logins == {"bot", "dev"}
Tickets == {1, 2}

StatusOptions == {"ready", "in progress", "in review", "failed", "setup error"}
TerminalStatuses == {"in review", "failed", "setup error"}

\* get_first_claim / get_latest_claim return None when no comment carries the tag
NoRun == <<"", 0>>
NoClaim == [found |-> FALSE, author |-> "", run_id |-> NoRun]

VARIABLES
    status,      \* ticket -> the persisted Status option of its project item
    comments,    \* ticket -> the comment stream, oldest first
    body,        \* ticket -> the lines of the issue body
    nextRun,     \* worker -> how many run ids (uuid4) the process has drawn
    login,       \* worker -> the gh account the worker process is logged in as
    once,        \* worker -> started with --once
    pc,          \* worker -> position in main / run_once
    cycles,      \* worker -> run_once calls started
    ready,       \* worker -> the ready list of the current run_once
    idx,         \* worker -> position of the for loop in ready
    number,      \* worker -> issue number the loop is at (0: none)
    run_id,      \* worker -> run id of the current claim attempt (NoRun: none yet)
    viewer,      \* worker -> GitHubClient._viewer_login ("" : not cached)
    task,        \* worker -> the FunctionalBringupTask of the current run
    attemptsLog, \* history: every finished _claim_issue call
    writes,      \* history: every status mutation issued, with the status it replaced
    flags,       \* worker -> history of the current run_once
    call         \* the function call under test, where one function is checked alone

vars == <<status, comments, body, nextRun, login, once, pc, cycles,
          ready, idx, number, run_id, viewer, task, attemptsLog, writes, flags,
          call>>

shared == <<status, comments>>
config == <<body, login, once, call>>

\* ------------------------------------------------------------ sequences
RECURSIVE Insert(_, _, _)
Insert(t, s, key) ==
    IF s = <<>> THEN <<t>>
    ELSE IF key[t] < key[Head(s)] THEN <<t>> \o s
    ELSE <<Head(s)>> \o Insert(t, Tail(s), key)

RECURSIVE SortedBy(_, _)
\* sorted(issues, key=createdAt): stable, ascending
SortedBy(s, key) ==
    IF s = <<>> THEN <<>>
    ELSE Insert(s[Len(s)], SortedBy(SubSeq(s, 1, Len(s) - 1), key), key)

RECURSIVE Descending(_)
\* the elements of S, largest first
Descending(S) ==
    IF S = {} THEN <<>>
    ELSE LET m == CHOOSE x \in S : \A y \in S : y <= x
         IN <<m>> \o Descending(S \ {m})

\* ------------------------------------------------------------ comments
\* _claim_comment: the [yt-claim] block posted by author a
ClaimComment(a, w, r) ==
    [kind |-> "claim", author |-> a, worker |-> w, run_id |-> r, status |-> ""]

\* a status comment that leaves the run id out
StatusCommentNoRun(a, r, st) ==
    [kind |-> "status", author |-> a, worker |-> "", run_id |-> NoRun, status |-> st]

\* the [yt-status] blocks of _handle_setup_error, _success_comment, _failure_comment
StatusComment(a, r, st) ==
    [kind |-> "status", author |-> a, worker |-> "", run_id |-> r, status |-> st]

IsClaim(c) == c.kind = "claim"

AsClaim(c) == [found |-> TRUE, author |-> c.author, run_id |-> c.run_id]

\* comments(last: 10): the window get_latest_claim reads
CommentsLast == 10

\* the last n elements of s
LastN(s, n) == IF Len(s) <= n THEN s ELSE SubSeq(s, Len(s) - n + 1, Len(s))

\* the most recent comment bearing the claim tag, among the last ten comments
get_latest_claim(stream) ==
    LET claims == SelectSeq(LastN(stream, CommentsLast), IsClaim)
    IN IF claims = <<>> THEN NoClaim ELSE AsClaim(claims[Len(claims)])

\* a read that returns the newest comment bearing the claim tag
GetNewestClaim(stream) ==
    LET claims == SelectSeq(stream, IsClaim)
    IN IF claims = <<>> THEN NoClaim ELSE AsClaim(claims[Len(claims)])

\* the oldest comment bearing the claim tag
get_first_claim(stream) ==
    LET claims == SelectSeq(stream, IsClaim)
    IN IF claims = <<>> THEN NoClaim ELSE AsClaim(claims[1])

\* a decision that forgets to compare the run id
ClaimDropsRunId(first_claim, me, rid) ==
    first_claim.found /\ first_claim.author = me

\* a decision that forgets to compare the author
ClaimIgnoresAuthor(first_claim, me, rid) ==
    first_claim.found /\ first_claim.run_id = rid

\* the decision of _claim_issue on what it read back

ClaimWins(first_claim, me, rid) ==
    /\ first_claim.found
    /\ first_claim.author = me
    /\ first_claim.run_id = rid

\* createdAt of an issue: issue numbers are handed out in creation order
createdAt == [t \in Tickets |-> t]

\* list_open_issues: gh issue list, which answers newest first
list_open_issues == Descending(Tickets)

\* a poll that leaves the ready issues in the order gh lists them
ListReadyUnsorted == SelectSeq(list_open_issues, LAMBDA t : status[t] = "ready")

\* a poll without the status filter
ListAllOpen == SortedBy(list_open_issues, createdAt)

\* a poll that keeps every ticket that is not in a terminal status
ListNotTerminal ==
    SelectSeq(SortedBy(list_open_issues, createdAt),
              LAMBDA t : status[t] \in {"ready", "in progress"})

\* list_ready_issues: the open issues sorted by createdAt, those in ready status kept
list_ready_issues ==
    SelectSeq(SortedBy(list_open_issues, createdAt), LAMBDA t : status[t] = "ready")

\* ------------------------------------------------------------ the issue body
\* a line of an issue body, as parse_issue_body sees it after strip() and
\* split(":", 1): whether it has a colon, and the stripped texts before and after it
BodyLine(key, value) == [colon |-> TRUE, key |-> key, value |-> value]
ProseLine == [colon |-> FALSE, key |-> "", value |-> ""]

\* values the issue template leaves in a field nobody filled in
Placeholders == {"<optional>", "<optional int>"}

\* dict.get on a key that is not there
NoField == "None"

\* parse_issue_body(body).get(key): the last line that sets the key wins, a
\* placeholder counts as the empty string
parse_issue_body(lines, key) ==
    LET hits == SelectSeq(lines, LAMBDA l : l.colon /\ l.key # "" /\ l.key = key)
        value == hits[Len(hits)].value
    IN IF hits = <<>> THEN NoField
       ELSE IF value \in Placeholders THEN "" ELSE value

\* a test that takes an empty value for a model id
HasModelIdAcceptsEmpty(lines) == parse_issue_body(lines, "hf_model_id") # NoField

\* `if not hf_model_id` of _run_task, negated
HasModelId(lines) == parse_issue_body(lines, "hf_model_id") \notin {NoField, ""}

\* issue bodies: filled in, without the field, with the field left empty
GoodBody ==
    <<ProseLine, BodyLine("hf_model_id", "org/model"), BodyLine("batch", "<optional int>")>>
BodyNoField == <<ProseLine, BodyLine("batch", "<optional int>")>>
BodyEmptyField == <<BodyLine("hf_model_id", ""), BodyLine("batch", "<optional int>")>>
FleetBodies == {GoodBody, BodyNoField, BodyEmptyField}

\* ------------------------------------------------------------ check()
\* thresholds in percent: YT_TOP1_MIN 0.90, YT_TOP5_MIN 0.97
Top1Min == 90
Top5Min == 97

\* what json.loads makes of the text after YT_METRICS=
\*   bad: JSONDecodeError; falsy: {}, null, 0, "", []; nondict: a truthy non-mapping;
\*   dict: a non-empty mapping, val its top1/top5 entries (either may be absent)
JsonBad == [kind |-> "bad"]
JsonFalsy == [kind |-> "falsy"]
JsonNonDict == [kind |-> "nondict"]
JsonDict(m) == [kind |-> "dict", val |-> m]
PyNone == [kind |-> "none"]

TextLine == [prefix |-> "", json |-> JsonBad]
MetricsLine(j) == [prefix |-> "YT_METRICS=", json |-> j]

\* a metrics mapping as Python holds it: entries in insertion order, each a key (a str
\* or an int) and a value (a number, here in hundredths; a bool, 0 or 1; or nan)
Key(t, name) == [t |-> t, name |-> name]
Value(t, v) == [t |-> t, v |-> v]
Entry(k, v) == [key |-> k, value |-> v]

\* json.dumps(metrics): every key becomes a JSON string, a bool true or false, nan the
\* bare word NaN, a number its shortest repr
json_dumps(m) ==
    [kind |-> "text",
     members |-> [i \in 1..Len(m) |->
                    [name |-> m[i].key.name,
                     literal |-> CASE m[i].value.t = "bool" ->
                                          IF m[i].value.v = 1 THEN "true" ELSE "false"
                                   [] m[i].value.t = "nan" -> "NaN"
                                   [] OTHER -> "number",
                     digits |-> m[i].value.v]]]

\* the value a JSON literal decodes to
DecodeLiteral(mem) ==
    CASE mem.literal = "true" -> Value("bool", 1)
      [] mem.literal = "false" -> Value("bool", 0)
      [] mem.literal = "NaN" -> Value("nan", 0)
      [] OTHER -> Value("num", mem.digits)

\* a decoder that keeps the numbers only
JsonLoadsNumbersOnly(payload) ==
    IF payload.kind # "text" THEN payload
    ELSE LET nums == SelectSeq(payload.members, LAMBDA mem : mem.literal = "number")
         IN [kind |-> IF nums = <<>> THEN "falsy" ELSE "dict",
             val |-> [i \in 1..Len(nums) |->
                        Entry(Key("str", nums[i].name), DecodeLiteral(nums[i]))]]

\* json.loads(payload): a JSON object text decodes member by member, every key a str;
\* the other payloads stand for texts that decode to the class they name
json_loads(payload) ==
    IF payload.kind # "text" THEN payload
    ELSE [kind |-> IF payload.members = <<>> THEN "falsy" ELSE "dict",
          val |-> [i \in 1..Len(payload.members) |->
                     Entry(Key("str", payload.members[i].name),
                           DecodeLiteral(payload.members[i]))]]

RECURSIVE parse_metrics(_)
\* the JSON of the first line starting with YT_METRICS=, None when it does not decode
\* or no line has the prefix
parse_metrics(output) ==
    IF output = <<>> THEN PyNone
    ELSE IF Head(output).prefix = "YT_METRICS="
         THEN LET value == json_loads(Head(output).json)
              IN IF value = JsonBad THEN PyNone ELSE value
         ELSE parse_metrics(Tail(output))

\* bool(metrics) of `if not metrics`
Truthy(metrics) == metrics.kind \in {"nondict", "dict"}

\* metrics.get(key, 0)
Get(m, key) == IF key \in DOMAIN m THEN m[key] ELSE 0

\* a threshold test that is content with one of the two metrics
MetricsOkEitherOne(m, top1_min, top5_min) ==
    Get(m, "top1") >= top1_min \/ Get(m, "top5") >= top5_min

_metrics_ok(m, top1_min, top5_min) ==
    Get(m, "top1") >= top1_min /\ Get(m, "top5") >= top5_min

\* the four command steps of check(): name and expect_metrics
Steps == << [name |-> "pytest", expect_metrics |-> FALSE],
            [name |-> "hf", expect_metrics |-> TRUE],
            [name |-> "tt-trace-off", expect_metrics |-> TRUE],
            [name |-> "tt-trace-on", expect_metrics |-> TRUE] >>

\* _format_failure: the diagnostic of one failing step (metrics: the payload is quoted)
Failure(name, withMetrics) == [step |-> name, metrics |-> withMetrics]

\* one iteration of the for loop of check(): the diagnostics it appends, or raised
\* when _metrics_ok is handed something that has no .get
StepEval(step, res) ==
    IF res.rc # 0 THEN [raised |-> FALSE, errors |-> <<Failure(step.name, FALSE)>>]
    ELSE IF ~step.expect_metrics THEN [raised |-> FALSE, errors |-> <<>>]
    ELSE LET metrics == parse_metrics(res.stdout)
         IN IF ~Truthy(metrics)
            THEN [raised |-> FALSE, errors |-> <<Failure(step.name, FALSE)>>]
            ELSE IF metrics.kind = "nondict" THEN [raised |-> TRUE, errors |-> <<>>]
            ELSE IF ~_metrics_ok(metrics.val, Top1Min, Top5Min)
                 THEN [raised |-> FALSE, errors |-> <<Failure(step.name, TRUE)>>]
                 ELSE [raised |-> FALSE, errors |-> <<>>]

RECURSIVE _parse_agent_check(_)
\* the verdict of the first line that starts with check= (case-insensitive, stripped);
\* a line is "pass", "fail", "unknown" (check=<something else>) or "text"
_parse_agent_check(output) ==
    IF output = <<>> THEN FALSE
    ELSE IF Head(output) = "text" THEN _parse_agent_check(Tail(output))
    ELSE Head(output) = "pass"

\* _run_agent_check: None (<<>>) or the error string
_run_agent_check(agent) ==
    IF agent.raised THEN <<Failure("agent", FALSE)>>
    ELSE IF _parse_agent_check(agent.lines) THEN <<>>
    ELSE <<Failure("agent", FALSE)>>

RECURSIVE RunSteps(_, _)
\* the for loop of check() from step i on
RunSteps(i, results) ==
    IF i > Len(Steps) THEN [raised |-> FALSE, errors |-> <<>>]
    ELSE LET one == StepEval(Steps[i], results[i])
         IN IF one.raised THEN one
            ELSE LET rest == RunSteps(i + 1, results)
                 IN [raised |-> rest.raised, errors |-> one.errors \o rest.errors]

\* check(): None, the joined diagnostics, or an exception
check(inp) ==
    LET cmds == RunSteps(1, inp.results)
    IN IF cmds.raised THEN [kind |-> "raise", errors |-> <<>>]
       ELSE LET errors == cmds.errors \o _run_agent_check(inp.agent)
            IN IF errors # <<>> THEN [kind |-> "errors", errors |-> errors]
               ELSE [kind |-> "none", errors |-> <<>>]

\* ------------------------------------------------------------ the task
\* a task whose constructor forgets the budget and leaves the base class default
TaskWithDefaultBudget(max_attempts) ==
    [at |-> "set_up", max_attempts |-> 10, attempts |-> 0, checks |-> 0, failed_checks |-> 0,
     raised_in |-> "", dirty |-> FALSE, residue |-> FALSE, commits |-> 0,
     did_commit |-> FALSE, commit_sha |-> FALSE,
     final_metrics |-> FALSE, result |-> "none", pushed |-> FALSE, pr |-> FALSE]

\* FunctionalBringupTask.__init__: the budget goes to the base class; nothing is cloned,
\* no attempt made, nothing committed
FunctionalBringupTask(max_attempts) ==
    [at |-> "set_up", max_attempts |-> max_attempts, attempts |-> 0, checks |-> 0,
     failed_checks |-> 0,
     raised_in |-> "", dirty |-> FALSE, residue |-> FALSE, commits |-> 0,
     did_commit |-> FALSE, commit_sha |-> FALSE,
     final_metrics |-> FALSE, result |-> "none", pushed |-> FALSE, pr |-> FALSE]

\* the task of a run, its budget handed over under the parameter's own name (what
\* the positional call of _run_task binds is followed in SpecBuild)
NewTask == FunctionalBringupTask(MaxAttempts)

\* no task was built (yet) in this run_once
NoTask == [NewTask EXCEPT !.at = "absent"]

\* what the shell answers while _commit_work runs: git add and git commit succeed or
\* not, whether git status is empty after the commit, whether git rev-parse answers
CommitEnvs == [commit_ok : BOOLEAN, clean_after : BOOLEAN, rev_ok : BOOLEAN]

\* git status --porcelain prints something: changes git add -A can stage (dirty), or
\* lines it cannot clear (residue, seen when the status after a commit is not empty)
StatusDirty(t) == t.dirty \/ t.residue

\* a commit step that lets a success with nothing to commit pass
CommitWorkQuietOnClean(t, success, env) ==
    IF ~StatusDirty(t) THEN [task |-> t, raised |-> FALSE]
    ELSE IF ~(env.commit_ok /\ t.dirty) THEN [task |-> t, raised |-> TRUE]
    ELSE [task |-> [t EXCEPT !.commits = @ + 1, !.did_commit = TRUE, !.commit_sha = TRUE,
                             !.dirty = FALSE],
          raised |-> FALSE]

\* a commit step that commits again whatever the status says
CommitWorkAlways(t, success, env) ==
    [task |-> [t EXCEPT !.commits = @ + 1, !.did_commit = TRUE, !.commit_sha = TRUE,
                        !.dirty = FALSE],
     raised |-> FALSE]

\* _commit_work(metrics, success): the task afterwards, and whether it raised.
\* git commit exits non-zero when nothing is staged.
_commit_work(t, success, env) ==
    IF ~StatusDirty(t)
    THEN [task |-> t, raised |-> success]
    ELSE IF ~(env.commit_ok /\ t.dirty)
         THEN [task |-> t, raised |-> TRUE]
         ELSE LET c == [t EXCEPT !.commits = @ + 1, !.did_commit = TRUE, !.dirty = FALSE]
              IN IF ~env.rev_ok
                 THEN [task |-> c, raised |-> TRUE]
                 ELSE [task |-> [c EXCEPT !.commit_sha = TRUE,
                                          !.residue = @ \/ ~env.clean_after],
                       raised |-> t.residue \/ ~env.clean_after]

\* a success hook that captures the metrics and forgets the commit
OnSuccessNoCommit(t, eval_ok, env) ==
    [task |-> [t EXCEPT !.final_metrics = eval_ok], raised |-> ~eval_ok]

\* on_success(result): the final eval, then the commit
on_success(t, eval_ok, env) ==
    IF ~eval_ok THEN [task |-> t, raised |-> TRUE]
    ELSE _commit_work([t EXCEPT !.final_metrics = TRUE], TRUE, env)

\* on_failure(result): persist whatever is there
on_failure(t, env) == _commit_work(t, FALSE, env)

\* the inputs check() is run on inside the executor: everything passes, the
\* regression suite fails, a metric misses its threshold, the reviewer says FAIL,
\* a payload that is no mapping
GoodMetrics == JsonDict([top1 |-> 95, top5 |-> 98])
GoodStep == [rc |-> 0, stdout |-> <<MetricsLine(GoodMetrics)>>]
GoodAgent == [raised |-> FALSE, lines |-> <<"pass">>]
AllGood == [results |-> <<GoodStep, GoodStep, GoodStep, GoodStep>>, agent |-> GoodAgent]
CheckScenarios ==
    { AllGood,
      [AllGood EXCEPT !.results[1].rc = 1],
      [AllGood EXCEPT !.results[3].stdout = <<MetricsLine(JsonDict([top1 |-> 85, top5 |-> 98]))>>],
      [AllGood EXCEPT !.agent.lines = <<"fail">>],
      [AllGood EXCEPT !.results[2].stdout = <<MetricsLine(JsonNonDict)>>] }

\* ------------------------------------------------------------ Task.__call__
\* the budget test after a failed check
Exhausted(t) == t.attempts >= t.max_attempts

\* an exception leaves task(); raised_in keeps the step it came from
Raised(t) == [t EXCEPT !.at = "raised", !.raised_in = t.at]

\* set_up() raised
SetupRaised(t) == t.raised_in = "set_up"

\* set_up(): clone, branch, prerequisites, weights, hardware reset; any of them may raise
ExecSetUp(t) ==
    { Raised(t), [t EXCEPT !.at = "attempt"] }

\* one attempt body: the agent works on the clone, may or may not leave changes, may raise
ExecAttempt(t) ==
    UNION { LET t2 == [t EXCEPT !.attempts = @ + 1, !.dirty = @ \/ edits]
            IN { [t2 EXCEPT !.at = "check"], Raised(t2) } : edits \in BOOLEAN }

\* where the loop goes after check() returned res
AfterCheck(t, res) ==
    IF res.kind = "raise" THEN Raised(t)
    ELSE IF res.kind = "none" THEN [t EXCEPT !.at = "on_success"]
    ELSE LET t2 == [t EXCEPT !.failed_checks = @ + 1]
         IN IF Exhausted(t2) THEN [t2 EXCEPT !.at = "on_failure"]
            ELSE [t2 EXCEPT !.at = "attempt"]

\* check() after the attempt
ExecCheck(t) ==
    { AfterCheck([t EXCEPT !.checks = @ + 1], check(inp)) : inp \in CheckScenarios }

\* the hook, then task() returns the TaskResult
Finish(out, result) ==
    IF out.raised THEN Raised(out.task)
    ELSE [out.task EXCEPT !.at = "returned", !.result = result]

ExecOnSuccess(t) ==
    { Finish(on_success(t, eval_ok, env), "success") : eval_ok \in BOOLEAN, env \in CommitEnvs }

ExecOnFailure(t) ==
    { Finish(on_failure(t, env), "failed") : env \in CommitEnvs }

\* the steps task() can take from t
ExecNext(t) ==
    CASE t.at = "set_up" -> ExecSetUp(t)
      [] t.at = "attempt" -> ExecAttempt(t)
      [] t.at = "check" -> ExecCheck(t)
      [] t.at = "on_success" -> ExecOnSuccess(t)
      [] t.at = "on_failure" -> ExecOnFailure(t)
      [] OTHER -> {}

ExecDone(t) == t.at \in {"returned", "raised"}

RECURSIVE RunAll(_)
\* every way task() can end from the tasks in S
RunAll(S) ==
    IF \A t \in S : ExecDone(t) THEN S
    ELSE RunAll({t \in S : ExecDone(t)} \cup UNION {ExecNext(t) : t \in S})

\* task(): every way a freshly built task can end
TaskOutcomes == RunAll({NewTask})

\* ------------------------------------------------------------ the worker
NoFlags == [won |-> FALSE, move_failed |-> FALSE, login_failed |-> FALSE, handler |-> "none"]

NoCall == [fn |-> "none"]

\* the tracker and the worker processes right after start: every ticket ready and
\* without comments, every Worker() constructed, main about to call run_once
Started ==
    /\ status = [t \in Tickets |-> "ready"]
    /\ comments = [t \in Tickets |-> <<>>]
    /\ nextRun = [w \in Workers |-> 0]
    /\ pc = [w \in Workers |-> "poll"]
    /\ cycles = [w \in Workers |-> 0]
    /\ ready = [w \in Workers |-> <<>>]
    /\ idx = [w \in Workers |-> 0]
    /\ number = [w \in Workers |-> 0]
    /\ run_id = [w \in Workers |-> NoRun]
    /\ viewer = [w \in Workers |-> ""]
    /\ attemptsLog = {}
    /\ writes = {}
    /\ flags = [w \in Workers |-> NoFlags]

\* ticket 1 carries its hf_model_id, ticket 2 may lack it or leave it empty; w1 is logged in as bot and
\* loops forever, w2 may share the login or not and may run with --once
Init ==
    /\ Started
    /\ body \in {f \in [Tickets -> FleetBodies] : f[1] = GoodBody}
    /\ login \in {f \in [Workers -> Logins] : f["w1"] = "bot"}
    /\ once \in {f \in [Workers -> BOOLEAN] : ~f["w1"]}
    /\ task = [w \in Workers |-> NoTask]
    /\ call = NoCall

\* an exception that leaves run_once ends the process (main has no handler); its
\* locals die with it
Crash(w) ==
    /\ pc' = [pc EXCEPT ![w] = "crashed"]
    /\ ready' = [ready EXCEPT ![w] = <<>>]
    /\ idx' = [idx EXCEPT ![w] = 0]
    /\ task' = [task EXCEPT ![w] = NoTask]

\* run_once returns (True or False) to main
Return(w) == pc' = [pc EXCEPT ![w] = "returning"]

\* an except clause that reports every exception as a failed bringup
RaiseAsFailure(w) ==
    /\ pc' = [pc EXCEPT ![w] = "hf_move"]
    /\ flags' = [flags EXCEPT ![w].handler = "failure"]

\* an exception inside the try block of run_once: on to _handle_setup_error
Raise(w) ==
    /\ pc' = [pc EXCEPT ![w] = "se_move"]
    /\ flags' = [flags EXCEPT ![w].handler = "setup error"]

\* comment_issue(number, body)
comment_issue(n, c) == comments' = [comments EXCEPT ![n] = Append(@, c)]

\* the updateProjectV2ItemFieldValue mutation of move_issue_status
move_issue_status(w, n, st) ==
    /\ status' = [status EXCEPT ![n] = st]
    /\ writes' = writes \cup {[ticket |-> n, from |-> status[n], to |-> st, by |-> w,
                                after_failed_move |-> flags[w].move_failed]}

\* uuid.uuid4().hex: a token no other draw, of this or another process, returns
uuid4(w) == <<w, nextRun[w] + 1>>

\* run_once up to the for loop: list the ready issues
Poll(w) ==
    /\ pc[w] = "poll"
    /\ cycles[w] < MaxCycles
    /\ cycles' = [cycles EXCEPT ![w] = @ + 1]
    /\ \/ /\ Crash(w)
       \/ /\ ready' = [ready EXCEPT ![w] = list_ready_issues]
          /\ idx' = [idx EXCEPT ![w] = 1]
          /\ pc' = [pc EXCEPT ![w] =
                       IF list_ready_issues = <<>> THEN "returning" ELSE "claim_post"]
          /\ task' = task
    /\ UNCHANGED <<shared, config, nextRun, number, run_id, viewer, attemptsLog, writes, flags>>

\* the head of the for loop and the first call of _claim_issue: post the claim
PostClaim(w) ==
    /\ pc[w] = "claim_post"
    /\ number' = [number EXCEPT ![w] = ready[w][idx[w]]]
    /\ run_id' = [run_id EXCEPT ![w] = uuid4(w)]
    /\ nextRun' = [nextRun EXCEPT ![w] = @ + 1]
    /\ \/ /\ comment_issue(ready[w][idx[w]], ClaimComment(login[w], w, uuid4(w)))
          /\ pc' = [pc EXCEPT ![w] = "claim_read"]
          /\ UNCHANGED <<ready, idx, task>>
       \/ /\ Crash(w)
          /\ UNCHANGED comments
    /\ UNCHANGED <<status, config, cycles, viewer, attemptsLog, writes, flags>>

\* a loop that contests the same issue again after a loss
NextIssueRetry(w) ==
    /\ idx' = idx
    /\ pc' = [pc EXCEPT ![w] = "claim_post"]

\* `continue`: the next issue of the ready list, or the end of run_once
NextIssue(w) ==
    IF idx[w] < Len(ready[w])
    THEN /\ idx' = [idx EXCEPT ![w] = @ + 1]
         /\ pc' = [pc EXCEPT ![w] = "claim_post"]
    ELSE /\ idx' = idx
         /\ Return(w)

\* a run_once that goes on with the ticket whatever _claim_issue answered
ReadClaimGoesOn(w) ==
    /\ pc[w] = "claim_read"
    /\ LET first_claim == get_first_claim(comments[number[w]])
           won == ClaimWins(first_claim, login[w], run_id[w])
           entry == [worker |-> w, ticket |-> number[w], run_id |-> run_id[w],
                     read |-> first_claim, me |-> login[w], won |-> won]
       IN \/ /\ Crash(w)
             /\ UNCHANGED <<viewer, attemptsLog, flags>>
          \/ /\ first_claim.found
             /\ viewer[w] = ""
             /\ Crash(w)
             /\ flags' = [flags EXCEPT ![w].login_failed = TRUE]
             /\ UNCHANGED <<viewer, attemptsLog>>
          \/ /\ viewer' = [viewer EXCEPT ![w] = IF first_claim.found THEN login[w] ELSE @]
             /\ attemptsLog' = attemptsLog \cup {entry}
             /\ UNCHANGED <<ready, task, idx>>
             /\ pc' = [pc EXCEPT ![w] = "move_in_progress"]
             /\ flags' = [flags EXCEPT ![w].won = TRUE]
    /\ UNCHANGED <<shared, config, nextRun, cycles, number, run_id, writes>>

\* the rest of _claim_issue: read the claim of record back and decide
ReadClaim(w) ==
    /\ pc[w] = "claim_read"
    /\ LET first_claim == get_first_claim(comments[number[w]])
           won == ClaimWins(first_claim, login[w], run_id[w])
           entry == [worker |-> w, ticket |-> number[w], run_id |-> run_id[w],
                     read |-> first_claim, me |-> login[w], won |-> won]
       IN \/ \* the graphql read fails
             /\ Crash(w)
             /\ UNCHANGED <<viewer, attemptsLog, flags>>
          \/ \* gh api user fails: only asked when a claim was found and no login is cached
             /\ first_claim.found
             /\ viewer[w] = ""
             /\ Crash(w)
             /\ flags' = [flags EXCEPT ![w].login_failed = TRUE]
             /\ UNCHANGED <<viewer, attemptsLog>>
          \/ /\ viewer' = [viewer EXCEPT ![w] = IF first_claim.found THEN login[w] ELSE @]
             /\ attemptsLog' = attemptsLog \cup {entry}
             /\ UNCHANGED <<ready, task>>
             /\ IF won
                THEN /\ pc' = [pc EXCEPT ![w] = "move_in_progress"]
                     /\ flags' = [flags EXCEPT ![w].won = TRUE]
                     /\ idx' = idx
                ELSE /\ NextIssue(w)
                     /\ flags' = flags
    /\ UNCHANGED <<shared, config, nextRun, cycles, number, run_id, writes>>

lframe == <<config, nextRun, cycles, ready, idx, number, run_id, viewer, attemptsLog>>

\* move_issue_status(number, "in progress")
MoveInProgress(w) ==
    /\ pc[w] = "move_in_progress"
    /\ \/ /\ move_issue_status(w, number[w], "in progress")
          /\ pc' = [pc EXCEPT ![w] = "run_task"]
          /\ flags' = flags
       \/ /\ pc' = [pc EXCEPT ![w] = "se_move"]
          /\ flags' = [flags EXCEPT ![w].handler = "setup error", ![w].move_failed = TRUE]
          /\ UNCHANGED <<status, writes>>
    /\ UNCHANGED <<comments, task, lframe>>

\* _run_task: fetch the issue, parse its body, build the task and run it; the task works
\* on its own clone and talks to no ticket, so no other worker sees it half done
RunTask(w) ==
    /\ pc[w] = "run_task"
    /\ \/ \* get_issue fails, or the body has no hf_model_id
          /\ Raise(w)
          /\ task' = task
       \/ /\ HasModelId(body[number[w]])
          /\ \E t \in TaskOutcomes :
                /\ task' = [task EXCEPT ![w] = t]
                /\ IF t.at = "raised" THEN Raise(w)
                   ELSE /\ pc' = [pc EXCEPT ![w] =
                                    IF t.result = "success" THEN "hs_post" ELSE "hf_post"]
                        /\ flags' = [flags EXCEPT ![w].handler =
                                    IF t.result = "success" THEN "success" ELSE "failure"]
    /\ UNCHANGED <<shared, writes, lframe>>

\* ------------------------------------------------------------ the handlers
\* a handler up to and including its [yt-status] comment: push the branch (and open
\* the PR when withPr), then comment; each call may raise
PostStep(w, at, next, withPr, st) ==
    /\ pc[w] = at
    /\ \/ \* git push fails
          /\ Raise(w)
          /\ UNCHANGED <<task, comments>>
       \/ \* gh pr create fails
          /\ withPr
          /\ Raise(w)
          /\ task' = [task EXCEPT ![w].pushed = TRUE]
          /\ comments' = comments
       \/ \* the comment fails
          /\ Raise(w)
          /\ task' = [task EXCEPT ![w].pushed = TRUE, ![w].pr = withPr]
          /\ comments' = comments
       \/ /\ task' = [task EXCEPT ![w].pushed = TRUE, ![w].pr = withPr]
          /\ comment_issue(number[w], StatusComment(login[w], run_id[w], st))
          /\ pc' = [pc EXCEPT ![w] = next]
          /\ flags' = flags
    /\ UNCHANGED <<status, writes, lframe>>

\* a handler moves the status and run_once returns True
MoveStep(w, at, st) ==
    /\ pc[w] = at
    /\ \/ /\ move_issue_status(w, number[w], st)
          /\ Return(w)
          /\ flags' = flags
       \/ /\ pc' = [pc EXCEPT ![w] = "se_move"]
          /\ flags' = [flags EXCEPT ![w].handler = "setup error", ![w].move_failed = TRUE]
          /\ UNCHANGED <<status, writes>>
    /\ UNCHANGED <<comments, task, lframe>>

\* a success handler that moves the ticket before it pushes, opens the PR and comments
HandleSuccessMoveFirst(w) ==
    /\ pc[w] = "hs_post"
    /\ move_issue_status(w, number[w], "in review")
    /\ pc' = [pc EXCEPT ![w] = "hs_move"]
    /\ flags' = flags
    /\ UNCHANGED <<comments, task, lframe>>

\* a success handler that files the ticket under failed
HandleSuccessAsFailed(w) == MoveStep(w, "hs_move", "failed")

\* _handle_success: push, create the PR, comment; then move to in review
HandleSuccessPost(w) == PostStep(w, "hs_post", "hs_move", TRUE, "in review")
HandleSuccessMove(w) == MoveStep(w, "hs_move", "in review")

\* a failure handler that puts the ticket back in the queue
HandleFailureRequeue(w) == MoveStep(w, "hf_move", "ready")

\* _handle_failure: push, comment; then move to failed
HandleFailurePost(w) == PostStep(w, "hf_post", "hf_move", FALSE, "failed")
HandleFailureMove(w) == MoveStep(w, "hf_move", "failed")

\* _handle_setup_error: move to setup error, then comment; it runs inside the except
\* clause, so whatever it raises leaves run_once
SeMove(w) ==
    /\ pc[w] = "se_move"
    /\ \/ /\ move_issue_status(w, number[w], "setup error")
          /\ pc' = [pc EXCEPT ![w] = "se_comment"]
          /\ UNCHANGED <<ready, idx, task>>
       \/ /\ Crash(w)
          /\ UNCHANGED <<status, writes>>
    /\ UNCHANGED <<comments, flags, config, nextRun, cycles, number, run_id, viewer,
                   attemptsLog>>

SeComment(w) ==
    /\ pc[w] = "se_comment"
    /\ \/ /\ comment_issue(number[w], StatusComment(login[w], run_id[w], "setup error"))
          /\ Return(w)
          /\ UNCHANGED <<ready, idx, task>>
       \/ /\ Crash(w)
          /\ comments' = comments
    /\ UNCHANGED <<status, flags, writes, config, nextRun, cycles, number, run_id, viewer,
                   attemptsLog>>

\* a main loop that never looks at --once
MainLoopForever(w) ==
    /\ pc[w] = "returning"
    /\ pc' = [pc EXCEPT ![w] = "poll"]
    /\ ready' = [ready EXCEPT ![w] = <<>>]
    /\ idx' = [idx EXCEPT ![w] = 0]
    /\ number' = [number EXCEPT ![w] = 0]
    /\ run_id' = [run_id EXCEPT ![w] = NoRun]
    /\ task' = [task EXCEPT ![w] = NoTask]
    /\ flags' = [flags EXCEPT ![w] = NoFlags]
    /\ UNCHANGED <<shared, config, nextRun, cycles, viewer, attemptsLog, writes>>

\* main after run_once returned: leave under --once, else (sleep and) poll again; the
\* locals of run_once are gone
MainLoop(w) ==
    /\ pc[w] = "returning"
    /\ pc' = [pc EXCEPT ![w] = IF once[w] THEN "exited" ELSE "poll"]
    /\ ready' = [ready EXCEPT ![w] = <<>>]
    /\ idx' = [idx EXCEPT ![w] = 0]
    /\ number' = [number EXCEPT ![w] = 0]
    /\ run_id' = [run_id EXCEPT ![w] = NoRun]
    /\ task' = [task EXCEPT ![w] = NoTask]
    /\ flags' = [flags EXCEPT ![w] = NoFlags]
    /\ UNCHANGED <<shared, config, nextRun, cycles, viewer, attemptsLog, writes>>

Next ==
    \E w \in Workers :
        \/ Poll(w)
        \/ PostClaim(w)
        \/ ReadClaim(w)
        \/ MoveInProgress(w)
        \/ RunTask(w)
        \/ HandleSuccessPost(w)
        \/ HandleSuccessMove(w)
        \/ HandleFailurePost(w)
        \/ HandleFailureMove(w)
        \/ SeMove(w)
        \/ SeComment(w)
        \/ MainLoop(w)

Spec == Init /\ [][Next]_vars

\* ------------------------------------------------------------ the claim protocol
\* the finished claim attempts on ticket t that returned True
Wins(t) == {e \in attemptsLog : e.ticket = t /\ e.won}

\* C1: mutual exclusion of claims. Over the whole history of a ticket, whatever the
\* interleaving of the workers' posts and reads, at most one call of _claim_issue on
\* it has returned True.
C1_AtMostOneWinner ==
    \A t \in Tickets : \A e1, e2 \in Wins(t) : e1 = e2

\* two workers contended for the same ticket, one after the other's claim was posted:
\* one won and the other lost
C1_Witness ==
    \E e1, e2 \in attemptsLog :
        /\ e1.ticket = e2.ticket
        /\ e1.worker # e2.worker
        /\ e1.won
        /\ ~e2.won

\* C3: retraction on loss. Once a claim attempt has ended as a loss, the stream of the
\* ticket holds no claim comment of that attempt.
C3_LosingClaimRetracted ==
    \A e \in attemptsLog :
        ~e.won =>
            \A i \in 1..Len(comments[e.ticket]) :
                ~(IsClaim(comments[e.ticket][i]) /\ comments[e.ticket][i].run_id = e.run_id)

\* the status mutations worker w has issued on ticket t
WritesBy(w, t) == {wr \in writes : wr.by = w /\ wr.ticket = t}

\* C4: a failed lookup of the worker's own login is a lost claim: the worker runs no
\* task for the ticket, writes no status on it, and goes on polling.
C4_LoginFailureIsLoss ==
    \A w \in Workers :
        flags[w].login_failed =>
            /\ task[w].at = "absent"
            /\ WritesBy(w, number[w]) = {}
            /\ pc[w] # "crashed"

\* the edges of ready -> in progress -> {in review, failed, setup error}
Edges ==
    {<<"ready", "in progress">>} \cup {<<"in progress", st>> : st \in TerminalStatuses}

\* C5 as stated: every status mutation follows an edge of the state machine.
C5_OnlyEdges ==
    \A wr \in writes : <<wr.from, wr.to>> \in Edges

\* C5 amended: every status mutation follows an edge of the state machine, or moves a
\* still-ready ticket to setup error after the worker's move to in progress failed;
\* a ticket in a terminal status is never moved.
C5_EdgesOrFailedStart ==
    \A wr \in writes :
        /\ wr.from \notin TerminalStatuses
        /\ \/ <<wr.from, wr.to>> \in Edges
           \/ /\ wr.from = "ready"
              /\ wr.to = "setup error"
              /\ wr.after_failed_move

\* both kinds of mutation happened: a ticket went ready -> in progress -> in review, and
\* another went from ready to setup error
C5_Witness ==
    /\ \E wr \in writes : wr.from = "in progress" /\ wr.to = "in review"
    /\ \E wr \in writes : wr.from = "ready" /\ wr.to = "setup error"

\* a [yt-status] comment of run r is on ticket t
HasStatusComment(t, r) ==
    \E i \in 1..Len(comments[t]) :
        comments[t][i].kind = "status" /\ comments[t][i].run_id = r

\* a [yt-status] comment of run r naming status st is on ticket t
HasStatusCommentOf(t, r, st) ==
    \E i \in 1..Len(comments[t]) :
        /\ comments[t][i].kind = "status"
        /\ comments[t][i].run_id = r
        /\ comments[t][i].status = st

\* run_once of worker w is over: it returned, or an exception left it
RunOver(w) == pc[w] \in {"returning", "crashed"}

\* C6: a status transition that fails after a winning claim is surfaced as a setup
\* error: when the run is over the ticket's status is setup error and a setup-error
\* status comment of the run is on the ticket.
C6_FailedMoveSurfaced ==
    \A w \in Workers :
        (flags[w].move_failed /\ RunOver(w)) =>
            /\ status[number[w]] = "setup error"
            /\ HasStatusCommentOf(number[w], run_id[w], "setup error")

\* C7: whenever run_once returns to main after it claimed a ticket, a [yt-status]
\* comment of that run is on the ticket; main polls again only after run_once returned.
C7_StatusCommentBeforeNextPoll ==
    \A w \in Workers :
        (pc[w] = "returning" /\ flags[w].won) =>
            HasStatusComment(number[w], run_id[w])

\* a worker returns from a run that went through a failed status move and the
\* setup-error handler, another from a successful bringup
C7_Witness ==
    /\ \E w \in Workers :
          pc[w] = "returning" /\ flags[w].won /\ flags[w].move_failed
    /\ \E wr \in writes : wr.to = "in review"

\* C9: a task whose set_up raised has run no attempt and no check, its exception is
\* handled by _handle_setup_error, and when run_once returns the ticket's status is
\* setup error with a setup-error status comment of the run.
C9_SetupFailureUncounted ==
    \A w \in Workers :
        SetupRaised(task[w]) =>
            /\ task[w].attempts = 0
            /\ task[w].checks = 0
            /\ task[w].result = "none"
            /\ flags[w].handler = "setup error"
            /\ pc[w] \in {"se_move", "se_comment", "returning"}
            /\ pc[w] = "returning" =>
                  /\ status[number[w]] = "setup error"
                  /\ HasStatusCommentOf(number[w], run_id[w], "setup error")

\* run_once has returned after a task whose set_up raised
C9_Witness ==
    \E w \in Workers : SetupRaised(task[w]) /\ pc[w] = "returning"

\* ------------------------------------------------------------ one function alone
\* the fleet at rest, for the specifications that run one function on chosen inputs
Quiet ==
    /\ Started
    /\ body = [t \in Tickets |-> GoodBody]
    /\ login = [w \in Workers |-> "bot"]
    /\ once = [w \in Workers |-> FALSE]

fleet == <<status, comments, body, nextRun, login, once, pc, cycles, ready, idx,
           number, run_id, viewer, attemptsLog, writes, flags>>

\* the largest attempt budget a task is built with when it is run alone
MaxBudget == 3

\* a task built with a budget of its own, about to be called
InitTask ==
    /\ Quiet
    /\ \E m \in 1..MaxBudget :
          /\ call = [fn |-> "task", max_attempts |-> m]
          /\ task = [w \in Workers |-> IF w = "w1" THEN FunctionalBringupTask(m) ELSE NoTask]

\* one step of task()
ExecStep ==
    /\ \E t \in ExecNext(task["w1"]) : task' = [task EXCEPT !["w1"] = t]
    /\ UNCHANGED <<fleet, call>>

SpecTask == InitTask /\ [][ExecStep]_vars

\* C8: the executor never runs more than the max_attempts attempts it was built with;
\* once max_attempts checks have failed it has made exactly max_attempts attempts and
\* goes to on_failure and returns a failed result: exhaustion itself raises nothing
\* (only the failure hook can); and a failed result is returned only then.
C8_AttemptBudget ==
    LET t == task["w1"]
        m == call.max_attempts
    IN /\ t.attempts <= m
       /\ t.failed_checks = m =>
             /\ t.attempts = m
             /\ t.at \in {"on_failure", "returned", "raised"}
             /\ t.at = "returned" => t.result = "failed"
             /\ t.at = "raised" => t.raised_in = "on_failure"
       /\ t.result = "failed" => (t.failed_checks = m /\ t.at = "returned")

\* with a budget of at least two, every check failed and the task returned failed
C8_Witness ==
    /\ call.max_attempts >= 2
    /\ task["w1"].at = "returned"
    /\ task["w1"].result = "failed"
    /\ task["w1"].failed_checks = call.max_attempts

\* what a claim attempt can read back, and the run ids a worker can have drawn
ClaimReads ==
    {NoClaim} \cup [found : {TRUE}, author : Logins, run_id : Workers \X (1..2)]

InitClaim ==
    /\ Quiet
    /\ task = [w \in Workers |-> NoTask]
    /\ call \in [fn : {"_claim_issue"}, first_claim : ClaimReads, me : Logins,
                  run_id : Workers \X (1..2), done : {FALSE}, result : {FALSE}]

\* the decision of _claim_issue on the inputs of call
ApplyClaim ==
    /\ call.fn = "_claim_issue"
    /\ ~call.done
    /\ call' = [call EXCEPT !.done = TRUE,
                            !.result = ClaimWins(call.first_claim, call.me, call.run_id)]
    /\ UNCHANGED <<fleet, task>>

SpecClaim == InitClaim /\ [][ApplyClaim]_vars

\* C2: the attempt is a win exactly when what was read back is a claim record whose
\* author is the worker's login and whose run id is the one just posted.
C2_WinCondition ==
    call.done =>
        (call.result <=>
            call.first_claim = [found |-> TRUE, author |-> call.me, run_id |-> call.run_id])

\* a win: the record read back is the worker's own claim of this run
C2_Witness ==
    /\ call.done
    /\ call.result
    /\ call.first_claim.author = call.me

\* the metrics payloads a step is tried on: at the thresholds, above them, one value
\* short, a key missing, no keys of interest
MetricsDicts ==
    { [top1 |-> 90, top5 |-> 97], [top1 |-> 95, top5 |-> 98], [top1 |-> 89, top5 |-> 98],
      [top1 |-> 95, top5 |-> 96], [top5 |-> 98], [top1 |-> 95], <<>> }

JsonValues == {JsonBad, JsonFalsy, JsonNonDict} \cup {JsonDict(m) : m \in MetricsDicts}

\* what a step prints: nothing, no metrics line, one metrics line, text before it, or
\* a second metrics line after a bad or failing first one
Stdouts ==
    {<<>>, <<TextLine>>}
    \cup {<<MetricsLine(j)>> : j \in JsonValues}
    \cup {<<TextLine, MetricsLine(j)>> : j \in {JsonBad, GoodMetrics}}
    \cup {<<MetricsLine(j), MetricsLine(GoodMetrics)>> : j \in {JsonBad, JsonDict([top1 |-> 89, top5 |-> 98])}}

StepResults ==
    [rc : {0}, stdout : Stdouts] \cup [rc : {1}, stdout : {<<>>, <<MetricsLine(GoodMetrics)>>}]

PytestResults == [rc : {0, 1}, stdout : {<<TextLine>>}]

\* what the reviewing agent answers: an exception, or lines of which the first
\* check= line decides
AgentOutputs ==
    {[raised |-> TRUE, lines |-> <<>>]}
    \cup [raised : {FALSE},
          lines : {<<>>, <<"text">>, <<"pass">>, <<"fail">>, <<"unknown">>,
                   <<"text", "pass">>, <<"fail", "pass">>, <<"unknown", "pass">>}]

CheckInputs ==
    { [results |-> <<p, a, b, c>>, agent |-> g] :
        p \in PytestResults, a \in StepResults, b \in StepResults, c \in StepResults,
        g \in AgentOutputs }

InitCheck ==
    /\ Quiet
    /\ task = [w \in Workers |-> NoTask]
    /\ \E inp \in CheckInputs :
          call = [fn |-> "check", inp |-> inp, done |-> FALSE,
                  result |-> [kind |-> "none", errors |-> <<>>]]

\* check() on the inputs of call
ApplyCheck ==
    /\ call.fn = "check"
    /\ ~call.done
    /\ call' = [call EXCEPT !.done = TRUE, !.result = check(call.inp)]
    /\ UNCHANGED <<fleet, task>>

SpecCheck == InitCheck /\ [][ApplyCheck]_vars

\* the positions of the lines of out that start with YT_METRICS=
MetricLines(out) == {i \in 1..Len(out) : out[i].prefix = "YT_METRICS="}

\* a metric-gated step passes: exit code 0 and its metrics payload (the first
\* YT_METRICS= line) is a mapping with top1 and top5 at or above their thresholds
MetricStepPasses(res) ==
    /\ res.rc = 0
    /\ \E i \in MetricLines(res.stdout) :
          /\ \A j \in MetricLines(res.stdout) : i <= j
          /\ res.stdout[i].json.kind = "dict"
          /\ "top1" \in DOMAIN res.stdout[i].json.val
          /\ "top5" \in DOMAIN res.stdout[i].json.val
          /\ res.stdout[i].json.val["top1"] >= Top1Min
          /\ res.stdout[i].json.val["top5"] >= Top5Min

\* the review passes: the reviewer answered, and the marker of its answer (the first
\* check= line) is PASS
ReviewPasses(agent) ==
    /\ ~agent.raised
    /\ \E i \in 1..Len(agent.lines) :
          /\ agent.lines[i] = "pass"
          /\ \A j \in 1..(i - 1) : agent.lines[j] = "text"

\* C10: check() returns None exactly when the regression suite exits 0, each of the
\* three metric-gated steps exits 0 with a parseable payload whose top1 and top5 meet
\* the thresholds, and the review step answers PASS; otherwise it returns
\* diagnostics or raises.
C10_CheckNoneIffAllPass ==
    call.done =>
        (call.result.kind = "none" <=>
            /\ call.inp.results[1].rc = 0
            /\ \A i \in 2..4 : MetricStepPasses(call.inp.results[i])
            /\ ReviewPasses(call.inp.agent))

\* check() returned None on outputs that sit exactly at the thresholds
C10_Witness ==
    /\ call.done
    /\ call.result.kind = "none"
    /\ \A i \in 2..4 : call.inp.results[i].stdout = <<MetricsLine(JsonDict([top1 |-> 90, top5 |-> 97]))>>

\* ------------------------------------------------------------ the hooks alone
Hooks == {"on_success", "on_failure"}

\* a task whose attempts are over, on a workspace with or without pending changes,
\* and the hook calls made on it so far
InitHooks ==
    /\ Quiet
    /\ task = [w \in Workers |-> NoTask]
    /\ \E d \in BOOLEAN, r \in BOOLEAN :
          call = [fn |-> "hooks",
                  t |-> [FunctionalBringupTask(1) EXCEPT !.at = "hook", !.attempts = 1,
                                                         !.checks = 1, !.dirty = d,
                                                         !.residue = r],
                  log |-> <<>>]

\* one call of a hook; nothing touches the workspace between two calls
ApplyHook ==
    /\ call.fn = "hooks"
    /\ Len(call.log) < 2
    /\ \E h \in Hooks, eval_ok \in BOOLEAN, env \in CommitEnvs :
          LET out == IF h = "on_success" THEN on_success(call.t, eval_ok, env)
                     ELSE on_failure(call.t, env)
          IN call' = [call EXCEPT !.t = out.task,
                                  !.log = Append(@, [hook |-> h, eval_ok |-> eval_ok,
                                                     env |-> env, before |-> call.t,
                                                     after |-> out.task,
                                                     raised |-> out.raised])]
    /\ UNCHANGED <<fleet, task>>

SpecHooks == InitHooks /\ [][ApplyHook]_vars

\* C11: on a workspace without pending changes on_success raises and on_failure
\* returns normally; neither creates a commit, and on_failure leaves did_commit and
\* commit_sha as they were (false and unset on a task that has not committed).
C11_CleanWorkspace ==
    call.fn = "hooks" =>
        \A i \in 1..Len(call.log) :
            LET e == call.log[i]
            IN ~StatusDirty(e.before) =>
                  /\ e.after.commits = e.before.commits
                  /\ e.hook = "on_success" => e.raised
                  /\ e.hook = "on_failure" =>
                        /\ ~e.raised
                        /\ e.after.did_commit = e.before.did_commit
                        /\ e.after.commit_sha = e.before.commit_sha
                        /\ i = 1 => (~e.after.did_commit /\ ~e.after.commit_sha)

\* on a clean workspace on_failure was a no-op and then on_success raised
C11_Witness ==
    /\ call.fn = "hooks"
    /\ Len(call.log) = 2
    /\ ~StatusDirty(call.log[1].before)
    /\ call.log[1].hook = "on_failure" /\ ~call.log[1].raised
    /\ call.log[2].hook = "on_success" /\ call.log[2].eval_ok /\ call.log[2].raised
    /\ call.t.commits = 0 /\ ~call.t.did_commit

\* C12: the same hook called twice in a row, nothing changing the workspace in
\* between: when the first call made a commit, or returned normally, the second call
\* makes no commit.
C12_HooksIdempotent ==
    (call.fn = "hooks" /\ Len(call.log) = 2 /\ call.log[1].hook = call.log[2].hook) =>
        LET a == call.log[1]
            b == call.log[2]
        IN (a.after.commits > a.before.commits \/ ~a.raised) =>
              b.after.commits = a.after.commits

\* on_failure twice on pending changes: one commit, made by the first call, although
\* the shell would let the second call commit
C12_Witness ==
    /\ call.fn = "hooks"
    /\ Len(call.log) = 2
    /\ call.log[1].hook = "on_failure" /\ call.log[2].hook = "on_failure"
    /\ call.log[1].before.dirty
    /\ ~call.log[1].raised
    /\ call.log[2].env.commit_ok
    /\ call.t.commits = 1

\* C13: a task that returned success made exactly one commit, a task that returned
\* failure at most one, and no task ever makes two.
C13_CommitCount ==
    \A w \in Workers :
        /\ task[w].commits <= 1
        /\ task[w].result = "success" => task[w].commits = 1
        /\ task[w].result = "failed" => task[w].commits <= 1

\* one worker's task returned success with its commit while the other's returned
\* failure with nothing to commit
C13_Witness ==
    \E w \in Workers, v \in Workers :
        /\ w /= v
        /\ task[w].result = "success" /\ task[w].commits = 1 /\ task[w].did_commit
        /\ task[v].result = "failed" /\ task[v].commits = 0

\* ------------------------------------------------------------ move_issue_status alone
\* status names a caller can ask for: the five of the workflow and one no project has
TargetNames == StatusOptions \cup {"done"}

\* the project as GitHub holds it: whether it has a single-select field named Status,
\* and the names of that field's options
Schemas ==
    [has_status : BOOLEAN,
     options : {StatusOptions, StatusOptions \ {"setup error"}, {}}]

\* the ticket's item in the tracked project: none, one without a Status value, or one
\* with a value
NoItem == "absent"
NoValue == ""
Items == {NoItem, NoValue} \cup StatusOptions

\* _project_cache_from_data(project)
_project_cache_from_data(schema) ==
    IF ~schema.has_status THEN [raised |-> "Status field not found in project"]
    ELSE [raised |-> "", status_options |-> schema.options]

\* _ensure_project_cache(): fetched once per process
_ensure_project_cache(store) ==
    IF store.cache.raised = "" THEN store.cache
    ELSE _project_cache_from_data(store.schema)

\* get_issue_project_item(number, project_id)
get_issue_project_item(item) ==
    IF item = NoItem THEN [raised |-> "not in project"]
    ELSE IF item = NoValue THEN [raised |-> "missing Status field"]
    ELSE [raised |-> "", status |-> item]

\* a move that sends the mutation without looking the option up
MoveIssueStatusUnchecked(store, st) ==
    [store |-> [store EXCEPT !.item = st, !.mutations = @ + 1], raised |-> ""]

\* move_issue_status(number, status) on a store whose transport works
MoveIssueStatus(store, st) ==
    LET cache == _ensure_project_cache(store)
    IN IF cache.raised /= "" THEN [store |-> store, raised |-> cache.raised]
       ELSE LET cached == [store EXCEPT !.cache = cache]
                item == get_issue_project_item(store.item)
            IN IF item.raised /= "" THEN [store |-> cached, raised |-> item.raised]
               ELSE IF st \notin cache.status_options
                    THEN [store |-> cached, raised |-> "Unknown status option"]
                    ELSE [store |-> [cached EXCEPT !.item = st, !.mutations = @ + 1],
                          raised |-> ""]

InitMove ==
    /\ Quiet
    /\ task = [w \in Workers |-> NoTask]
    /\ \E schema \in Schemas, item \in Items :
          call = [fn |-> "move_issue_status",
                  store |-> [schema |-> schema, item |-> item, mutations |-> 0,
                             cache |-> [raised |-> "not fetched"]],
                  log |-> <<>>]

\* one call of move_issue_status; nobody else writes to the project
ApplyMove ==
    /\ call.fn = "move_issue_status"
    /\ Len(call.log) < 2
    /\ \E st \in TargetNames :
          LET out == MoveIssueStatus(call.store, st)
          IN call' = [call EXCEPT !.store = out.store,
                                  !.log = Append(@, [status |-> st, before |-> call.store,
                                                     after |-> out.store,
                                                     raised |-> out.raised])]
    /\ UNCHANGED <<fleet, task>>

SpecMove == InitMove /\ [][ApplyMove]_vars

\* C14: on a ticket that has an item in the project, two calls in a row with the same
\* target that has an option: neither raises, and the status after the second is the
\* status after the first, the target.
C14_MoveIdempotent ==
    (/\ call.fn = "move_issue_status"
     /\ Len(call.log) = 2
     /\ call.log[1].status = call.log[2].status
     /\ call.store.schema.has_status
     /\ call.log[1].status \in call.store.schema.options
     /\ call.log[1].before.item /= NoItem) =>
        /\ call.log[1].raised = ""
        /\ call.log[2].raised = ""
        /\ call.log[1].after.item = call.log[1].status
        /\ call.log[2].after.item = call.log[1].after.item

\* C15: a call whose target has no option, whose ticket has no item in the project, or
\* whose project has no Status field raises, sends no mutation and leaves the status
\* as it was.
C15_MoveFailsCleanly ==
    call.fn = "move_issue_status" =>
        \A i \in 1..Len(call.log) :
            LET e == call.log[i]
            IN (\/ e.status \notin e.before.schema.options
                \/ e.before.item = NoItem
                \/ ~e.before.schema.has_status) =>
                  /\ e.raised /= ""
                  /\ e.after.mutations = e.before.mutations
                  /\ e.after.item = e.before.item

\* a ready ticket of a full project: the move to a name without an option raised and
\* left it ready, the move to in progress that followed went through
C15_Witness ==
    /\ call.fn = "move_issue_status"
    /\ Len(call.log) = 2
    /\ call.log[1].before.item = "ready"
    /\ call.log[1].status = "done"
    /\ call.log[1].raised = "Unknown status option"
    /\ call.log[1].after.item = "ready"
    /\ call.log[2].raised = ""
    /\ call.store.item = "in progress"
    /\ call.store.mutations = 1

\* ------------------------------------------------------------ the cycle
\* the claim attempts of worker w that ended as wins, in the log L
WinsOf(L, w) == {e \in L : e.worker = w /\ e.won}

\* the part of run_once that follows a won claim
AfterWin ==
    {"move_in_progress", "run_task", "hs_post", "hs_move", "hf_post", "hf_move",
     "se_move", "se_comment"}

\* C16: within one run_once, once a claim is won the worker draws no further run id
\* and posts no further claim, wins nothing more, and calls _run_task at most once
\* (only right after its move to in progress); under --once the worker polls once and
\* leaves when that run_once has returned.
C16_OneTicketPerCycle ==
    [][\A w \in Workers :
          /\ flags[w].won =>
                /\ nextRun'[w] = nextRun[w]
                /\ WinsOf(attemptsLog', w) = WinsOf(attemptsLog, w)
                /\ pc'[w] \notin {"claim_post", "claim_read"}
          /\ pc[w] \in AfterWin => flags[w].won
          /\ (pc'[w] = "run_task" /\ pc[w] # "run_task") => pc[w] = "move_in_progress"
          /\ (pc'[w] = "move_in_progress" /\ pc[w] # "move_in_progress") =>
                (pc[w] = "claim_read" /\ ~flags[w].won)
          /\ once[w] => cycles'[w] <= 1
          /\ (pc'[w] = "exited" /\ pc[w] # "exited") =>
                (once[w] /\ cycles[w] = 1 /\ pc[w] = "returning")
          /\ (once[w] /\ pc[w] = "returning") => pc'[w] \in {"returning", "exited"}
      ]_vars

\* a worker polled two ready tickets, won the first and returns without a claim on
\* the second, and the --once worker has left after its single cycle
C16_Witness ==
    /\ \E w \in Workers :
          /\ pc[w] = "returning"
          /\ flags[w].won
          /\ Len(ready[w]) = 2
          /\ idx[w] = 1
          /\ \A i \in 1..Len(comments[ready[w][2]]) :
                ~(IsClaim(comments[ready[w][2]][i]) /\ comments[ready[w][2]][i].worker = w)
    /\ \E v \in Workers : once[v] /\ pc[v] = "exited" /\ cycles[v] = 1

\* ------------------------------------------------------------ orphaned tickets
\* worker w ended with an exception after its move to in progress and before any
\* terminal transition of the ticket it had claimed
Orphaned(w) ==
    /\ pc[w] = "crashed"
    /\ flags[w].won
    /\ status[number[w]] = "in progress"

\* the claim comments on ticket t in the streams S
ClaimsOn(S, t) == SelectSeq(S[t], IsClaim)

\* the tickets of a polled list
InList(l) == {l[i] : i \in 1..Len(l)}

\* worker v is in the part of run_once that works on ticket t after winning it
Executes(v, t, p, n) == p[v] \in AfterWin /\ n[v] = t

\* C17 as stated: from the crash on the status stays in progress, no other worker
\* executes the ticket, and no claim comment is added to it.
C17_NoHealingNoClaims ==
    [][\A w \in Workers :
          Orphaned(w) =>
              /\ status'[number[w]] = "in progress"
              /\ pc'[w] = "crashed"
              /\ \A v \in Workers \ {w} : ~Executes(v, number[w], pc', number')
              /\ ClaimsOn(comments', number[w]) = ClaimsOn(comments, number[w])
      ]_vars

\* C17 amended: from the crash on the status stays in progress and no other worker
\* wins or executes the ticket; no poll returns it any more, so a claim comment is
\* added to it only by a worker that still holds it in a list polled earlier, and
\* that attempt is a loss.
C17_NoHealing ==
    [][\A w \in Workers :
          Orphaned(w) =>
              LET t == number[w]
              IN /\ status'[t] = "in progress"
                 /\ pc'[w] = "crashed"
                 /\ \A v \in Workers \ {w} :
                       /\ ~Executes(v, t, pc', number')
                       /\ (pc[v] = "poll" /\ pc'[v] # "poll") => t \notin InList(ready'[v])
                       /\ WinsOf(attemptsLog', v) = WinsOf(attemptsLog, v)
                          \/ \A e \in WinsOf(attemptsLog', v) \ WinsOf(attemptsLog, v) :
                                e.ticket # t
                 /\ ClaimsOn(comments', t) # ClaimsOn(comments, t) =>
                       \E v \in Workers \ {w} :
                           /\ pc[v] = "claim_post"
                           /\ ready[v][idx[v]] = t
      ]_vars

\* the ticket is orphaned in progress, the other worker has polled again since and
\* found nothing to do
C17_Witness ==
    \E w \in Workers, v \in Workers :
        /\ v # w
        /\ Orphaned(w)
        /\ \A t \in Tickets : status[t] # "ready"
        /\ cycles[v] = 2
        /\ pc[v] = "returning"
        /\ ready[v] = <<>>

\* ------------------------------------------------------------ outcome and status
\* worker w has won its claim and run_once has returned
Processed(w) == pc[w] = "returning" /\ flags[w].won

\* C18 as stated: a claimed ticket ends in review only after a success result, failed
\* only after the budget was used up without a passing check, setup error only after
\* a failure before any attempt.
C18_StatusOnlyIfOutcome ==
    \A w \in Workers :
        Processed(w) =>
            LET t == task[w]
                st == status[number[w]]
            IN /\ st = "in review" => t.result = "success"
               /\ st = "failed" => (t.result = "failed" /\ t.failed_checks = t.max_attempts)
               /\ st = "setup error" => t.attempts = 0

\* C18 amended: in review only after a success result, failed only after the budget
\* was used up without a passing check, setup error only after an exception in the
\* try block of run_once, whether before the first attempt or after it.
C18_StatusOnlyIfOutcomeOrRaise ==
    \A w \in Workers :
        Processed(w) =>
            LET t == task[w]
                st == status[number[w]]
            IN /\ st \in TerminalStatuses \cup {"ready", "in progress"}
               /\ st = "in review" =>
                     (t.result = "success" /\ flags[w].handler = "success")
               /\ st = "failed" =>
                     /\ t.result = "failed"
                     /\ t.failed_checks = t.max_attempts
                     /\ t.attempts = t.max_attempts
                     /\ flags[w].handler = "failure"
               /\ st = "setup error" => flags[w].handler = "setup error"
               /\ st \in TerminalStatuses

\* a task that returned success, and a ticket that still ended in setup error: the
\* push, the pull request, the comment or the move to in review failed
C18_Witness ==
    \E w \in Workers :
        /\ Processed(w)
        /\ status[number[w]] = "setup error"
        /\ task[w].result = "success"
        /\ task[w].attempts >= 1

\* the ticket's body sets no hf_model_id, or sets it to nothing
LacksModelId(lines) ==
    \A i \in 1..Len(lines) :
        (lines[i].colon /\ lines[i].key = "hf_model_id") => lines[i].value = ""

\* C19: once the worker is past _run_task on a claimed ticket whose body lacks the
\* hf_model_id or has it empty, no task was built and no attempt run, the exception
\* goes to _handle_setup_error, and when run_once returns the ticket is in setup error
\* with a setup-error status comment of the run.
C19_MissingModelId ==
    \A w \in Workers :
        (flags[w].won /\ LacksModelId(body[number[w]])) =>
            /\ task[w] = NoTask
            /\ pc[w] \in {"move_in_progress", "run_task", "se_move", "se_comment",
                          "returning", "crashed"}
            /\ pc[w] \in {"se_move", "se_comment", "returning"} =>
                  flags[w].handler = "setup error"
            /\ pc[w] = "returning" =>
                  /\ status[number[w]] = "setup error"
                  /\ HasStatusCommentOf(number[w], run_id[w], "setup error")

\* run_once has returned from a ticket whose hf_model_id line is empty, after the
\* move to in progress went through
C19_Witness ==
    \E w \in Workers :
        /\ Processed(w)
        /\ body[number[w]] = BodyEmptyField
        /\ ~flags[w].move_failed
        /\ status[number[w]] = "setup error"

\* ------------------------------------------------------------ detect_system alone
\* pieces of `tt-smi -ls` output, each with what the two tests of detect_system see in
\* it once lowered: the substring n150, the substring "n300 l", a match of the
\* pattern \bn300\s+l\b
Piece(text, has150, sub300, re300) ==
    [text |-> text, n150 |-> has150, n300_l |-> sub300, match |-> re300]

Pieces ==
    { Piece("Wormhole", FALSE, FALSE, FALSE),
      Piece("N150 L", TRUE, FALSE, FALSE),
      Piece("n300 L", FALSE, TRUE, TRUE),
      Piece("n300   L", FALSE, FALSE, TRUE),
      Piece("xn300 L", FALSE, TRUE, FALSE),
      Piece("n300 R", FALSE, FALSE, FALSE) }

\* the longest inventory text, in pieces
MaxPieces == 5

\* n300 L boards from which on the machine counts as lb
LbBoards == 4

\* "n150" in text
Has150(text) == \E i \in 1..Len(text) : text[i].n150

\* re.findall(r"\bn300\s+l\b", text)
n300_l(text) == Len(SelectSeq(text, LAMBDA p : p.match))

Detected(system) == [kind |-> "ok", system |-> system]
DetectError == [kind |-> "error", system |-> ""]

\* a detection that needs one board more for lb
DetectSystemFiveBoards(rc, text) ==
    IF rc # 0 \/ text = <<>> THEN DetectError
    ELSE IF Has150(text) THEN Detected("n150")
    ELSE IF n300_l(text) > LbBoards THEN Detected("lb")
    ELSE IF n300_l(text) > 0 THEN Detected("n300")
    ELSE DetectError

\* detect_system(shell) on the exit code and the stdout of tt-smi -ls
detect_system(rc, text) ==
    IF rc # 0 THEN DetectError
    ELSE IF text = <<>> THEN DetectError
    ELSE IF Has150(text) THEN Detected("n150")
    ELSE IF n300_l(text) >= LbBoards THEN Detected("lb")
    ELSE IF n300_l(text) > 0 THEN Detected("n300")
    ELSE DetectError

\* the texts of at most n pieces
RECURSIVE Texts(_)
Texts(n) ==
    IF n = 0 THEN {<<>>}
    ELSE LET shorter == Texts(n - 1)
         IN shorter \cup {Append(t, p) : t \in {x \in shorter : Len(x) = n - 1}, p \in Pieces}

InitDetect ==
    /\ Quiet
    /\ task = [w \in Workers |-> NoTask]
    /\ \E rc \in {0, 1}, text \in Texts(MaxPieces) :
          call = [fn |-> "detect_system", rc |-> rc, text |-> text, done |-> FALSE,
                  result |-> DetectError]

ApplyDetect ==
    /\ call.fn = "detect_system"
    /\ ~call.done
    /\ call' = [call EXCEPT !.done = TRUE, !.result = detect_system(call.rc, call.text)]
    /\ UNCHANGED <<fleet, task>>

SpecDetect == InitDetect /\ [][ApplyDetect]_vars

\* occurrences of the substring "n300 l" in the lowered text
Sub300(text) == Len(SelectSeq(text, LAMBDA p : p.n300_l))

\* C20 as stated: a text containing n150 yields n150, one containing "n300 L" one to
\* three times yields n300, four times or more lb, and one containing neither is an
\* error.
C20_DetectByContent ==
    (call.fn = "detect_system" /\ call.done /\ call.rc = 0) =>
        /\ Has150(call.text) => call.result = Detected("n150")
        /\ Sub300(call.text) \in 1..3 => call.result = Detected("n300")
        /\ Sub300(call.text) >= 4 => call.result = Detected("lb")
        /\ (~Has150(call.text) /\ Sub300(call.text) = 0) => call.result = DetectError

\* C20 amended: n150 anywhere in the text yields n150 whatever else is there;
\* without it, one to three matches of n300 followed by whitespace and l, as whole
\* words and in any case, yield n300, four or more lb, none an error; a tt-smi that
\* fails or prints nothing is an error too.
C20_DetectByPrecedence ==
    (call.fn = "detect_system" /\ call.done) =>
        LET t == call.text
            k == n300_l(t)
        IN IF call.rc # 0 \/ t = <<>> THEN call.result = DetectError
           ELSE /\ Has150(t) => call.result = Detected("n150")
                /\ (~Has150(t) /\ k \in 1..3) => call.result = Detected("n300")
                /\ (~Has150(t) /\ k >= 4) => call.result = Detected("lb")
                /\ (~Has150(t) /\ k = 0) => call.result = DetectError

\* four n300 L boards and no n150: lb
C20_Witness ==
    /\ call.fn = "detect_system"
    /\ call.done
    /\ call.rc = 0
    /\ ~Has150(call.text)
    /\ n300_l(call.text) = 4
    /\ Sub300(call.text) = 4
    /\ call.result = Detected("lb")

\* ------------------------------------------------------------ parse_metrics alone
\* the most entries a metrics mapping has
MaxKeys == 2

MetricKeys == {Key("str", "top1"), Key("str", "trace"), Key("int", "1")}
MetricValues ==
    {Value("num", 95), Value("num", 0), Value("bool", 1), Value("bool", 0), Value("nan", 0)}

\* the mappings of at most n entries, no key twice
RECURSIVE Mappings(_)
Mappings(n) ==
    IF n = 0 THEN {<<>>}
    ELSE LET smaller == Mappings(n - 1)
         IN smaller \cup
            { Append(m, Entry(k, v)) :
                m \in {x \in smaller : Len(x) = n - 1 /\ \A i \in 1..Len(x) : x[i].key.name # "1"},
                k \in {Key("int", "1")}, v \in MetricValues } \cup
            { Append(m, Entry(k, v)) :
                m \in {x \in smaller : Len(x) = n - 1 /\ \A i \in 1..Len(x) : x[i].key.name # "top1"},
                k \in {Key("str", "top1")}, v \in MetricValues } \cup
            { Append(m, Entry(k, v)) :
                m \in {x \in smaller : Len(x) = n - 1 /\ \A i \in 1..Len(x) : x[i].key.name # "trace"},
                k \in {Key("str", "trace")}, v \in MetricValues }

\* the marker a writer puts before the JSON: the one parse_metrics looks for, or the
\* one without the YT_ prefix
Markers == {"YT_METRICS=", "METRICS="}

\* what the process printed before the metrics line: nothing, a line of text, or a
\* metrics line of an earlier evaluation
OutputsBefore ==
    {<<>>, <<TextLine>>, <<MetricsLine(json_dumps(<<Entry(Key("str", "top1"), Value("num", 10))>>))>>}

InitMetrics ==
    /\ Quiet
    /\ task = [w \in Workers |-> NoTask]
    /\ \E m \in Mappings(MaxKeys), marker \in Markers, before \in OutputsBefore :
          call = [fn |-> "parse_metrics", metrics |-> m, marker |-> marker,
                  before |-> before, done |-> FALSE, result |-> PyNone]

\* serialize the mapping into a line after the earlier output, and parse the output
ApplyMetrics ==
    /\ call.fn = "parse_metrics"
    /\ ~call.done
    /\ call' = [call EXCEPT
                  !.done = TRUE,
                  !.result = parse_metrics(
                      call.before \o <<[prefix |-> call.marker, json |-> json_dumps(call.metrics)]>>)]
    /\ UNCHANGED <<fleet, task>>

SpecMetrics == InitMetrics /\ [][ApplyMetrics]_vars

\* parsed == metrics in Python: the same keys with equal values; nan equals nothing,
\* and parse_metrics hands {} back as it is
SameMapping(parsed, m) ==
    /\ parsed.kind \in {"dict", "falsy"}
    /\ parsed.val = m
    /\ \A i \in 1..Len(m) : m[i].value.t # "nan"

AttemptsOf(t, r) == {e \in attemptsLog : e.ticket = t /\ e.run_id = r}

\* C22: on a ticket that started without claim comments, a finished claim attempt is
\* a win exactly when its claim comment is the first one on the ticket; so once the
\* first poster has read back, there is a winner, however many contenders lost.
C22_FirstPosterWins ==
    \A t \in Tickets :
        LET claims == ClaimsOn(comments, t)
        IN /\ \A e \in attemptsLog :
                 e.ticket = t => (e.won <=> (claims # <<>> /\ claims[1].run_id = e.run_id))
           /\ (claims # <<>> /\ AttemptsOf(t, claims[1].run_id) # {}) => Wins(t) # {}

\* two workers posted their claims on the same ticket and both have read back: the
\* first poster won, the second lost
C22_Witness ==
    \E t \in Tickets :
        LET claims == ClaimsOn(comments, t)
        IN /\ Len(claims) = 2
           /\ claims[1].worker # claims[2].worker
           /\ \E e \in AttemptsOf(t, claims[1].run_id) : e.won
           /\ \E e \in AttemptsOf(t, claims[2].run_id) : ~e.won

\* C23 as stated: whenever a claim comment is added to a ticket, the ticket's status
\* is ready at that moment.
C23_ClaimsOnlyOnReady ==
    [][\A t \in Tickets :
          ClaimsOn(comments', t) # ClaimsOn(comments, t) => status[t] = "ready"
      ]_vars

\* C23 amended: every ticket of a polled list is ready at the moment of the poll, a
\* claim comment is posted only on a ticket of the list its poster polled in this
\* cycle, and a claim is won only on a ticket that is still ready.
C23_ClaimsOnlyOnPolledReady ==
    [][/\ \A w \in Workers :
             (pc[w] = "poll" /\ pc'[w] = "claim_post") =>
                 \A t \in InList(ready'[w]) : status[t] = "ready"
       /\ \A t \in Tickets :
             ClaimsOn(comments', t) # ClaimsOn(comments, t) =>
                 \E w \in Workers :
                     /\ pc[w] = "claim_post"
                     /\ ready[w][idx[w]] = t
                     /\ ClaimsOn(comments', t) =
                            Append(ClaimsOn(comments, t),
                                   ClaimComment(login[w], w, run_id'[w]))
       /\ \A e \in attemptsLog' \ attemptsLog : e.won => status[e.ticket] = "ready"
      ]_vars

\* a claim comment sits on a ticket that was already in review when it was posted:
\* its poster lost, and the ticket is still in review
C23_Witness ==
    \E t \in Tickets :
        LET claims == ClaimsOn(comments, t)
        IN /\ Len(claims) = 2
           /\ status[t] = "in review"
           /\ \E i \in 1..Len(comments[t]) :
                 /\ comments[t][i].kind = "status"
                 /\ \E j \in (i + 1)..Len(comments[t]) : comments[t][j] = claims[2]
           /\ \E e \in AttemptsOf(t, claims[2].run_id) : ~e.won

\* ------------------------------------------------------------ the order of claims
\* the claim comments worker w posted on ticket t
ClaimsBy(S, w, t) == SelectSeq(ClaimsOn(S, t), LAMBDA c : c.worker = w)

\* C24: a worker posts its claim on the ticket at its position in the polled list;
\* after a loss it moves one position on in the same list, or run_once returns when
\* the list is used up; so on no ticket has it posted more claims than it ran cycles.
C24_NoRecontest ==
    [][\A w \in Workers :
          /\ (pc[w] = "claim_post" /\ pc'[w] = "claim_read") =>
                 /\ number'[w] = ready[w][idx[w]]
                 /\ Len(ClaimsBy(comments', w, number'[w])) =
                        Len(ClaimsBy(comments, w, number'[w])) + 1
          /\ (pc[w] = "claim_read" /\ pc'[w] \in {"claim_post", "returning"}) =>
                 /\ ready'[w] = ready[w]
                 /\ IF idx[w] < Len(ready[w])
                    THEN pc'[w] = "claim_post" /\ idx'[w] = idx[w] + 1
                    ELSE pc'[w] = "returning"
          /\ \A t \in Tickets : Len(ClaimsBy(comments', w, t)) <= cycles'[w]
          /\ \A i, j \in 1..Len(ready'[w]) : ready'[w][i] = ready'[w][j] => i = j
      ]_vars

\* a worker lost the race for the first ticket of its list and has posted its claim
\* on the second one
C24_Witness ==
    \E w \in Workers :
        /\ pc[w] = "claim_read"
        /\ idx[w] = 2
        /\ \E e \in attemptsLog : e.worker = w /\ e.ticket = ready[w][1] /\ ~e.won
        /\ Len(ClaimsBy(comments, w, ready[w][1])) = 1
        /\ Len(ClaimsBy(comments, w, ready[w][2])) = 1

\* C25: a polled list is in strictly ascending order of creation time, and while a
\* worker is claiming the ticket at its position, it has attempted and lost every
\* ticket before that position, all of them older.
C25_OldestFirst ==
    \A w \in Workers :
        /\ \A i, j \in 1..Len(ready[w]) :
               i < j => createdAt[ready[w][i]] < createdAt[ready[w][j]]
        /\ pc[w] \in {"claim_post", "claim_read"} =>
               /\ idx[w] \in 1..Len(ready[w])
               /\ pc[w] = "claim_read" => number[w] = ready[w][idx[w]]
               /\ \A i \in 1..(idx[w] - 1) :
                      /\ createdAt[ready[w][i]] < createdAt[ready[w][idx[w]]]
                      /\ \E e \in attemptsLog :
                             e.worker = w /\ e.ticket = ready[w][i] /\ ~e.won

\* a worker is about to claim the newer of two polled tickets, having lost the older
C25_Witness ==
    \E w \in Workers :
        /\ pc[w] = "claim_post"
        /\ Len(ready[w]) = 2
        /\ idx[w] = 2
        /\ createdAt[ready[w][1]] < createdAt[ready[w][2]]

\* ------------------------------------------------------------ diagnostics of check()
\* the names of the steps of inp that fail, in step order, the review last
FailingSteps(inp) ==
    LET failing(i) == IF i = 1 THEN inp.results[1].rc # 0
                      ELSE ~MetricStepPasses(inp.results[i])
        names == [i \in 1..Len(Steps) |-> IF failing(i) THEN <<Steps[i].name>> ELSE <<>>]
    IN names[1] \o names[2] \o names[3] \o names[4]
       \o (IF ReviewPasses(inp.agent) THEN <<>> ELSE <<"agent">>)

\* C26: check() comes back from every step and from the review, whatever failed
\* before, and its diagnostics name each failing step once, in step order.
C26_AllDiagnostics ==
    call.done =>
        /\ call.result.kind # "raise"
        /\ [i \in 1..Len(call.result.errors) |-> call.result.errors[i].step]
               = FailingSteps(call.inp)

\* ------------------------------------------------------------ what a loser leaves
\* the finished attempt with run id r on ticket t was a win
WonRun(L, t, r) == \E e \in L : e.ticket = t /\ e.run_id = r /\ e.won

\* C28: whoever moves a ticket's status, posts a status comment on it or holds a task
\* does so in a run whose claim attempt on that ticket returned true; so an attempt
\* that returned false is followed by no status mutation, no status comment and no
\* task of its worker for that ticket in that cycle.
C28_LoserLeavesNoTrace ==
    [][/\ \A wr \in writes' \ writes :
             /\ number[wr.by] = wr.ticket
             /\ pc[wr.by] \in AfterWin
             /\ WonRun(attemptsLog, wr.ticket, run_id[wr.by])
       /\ \A t \in Tickets : status'[t] # status[t] => \E wr \in writes' \ writes : wr.ticket = t
       /\ \A t \in Tickets :
             comments'[t] # comments[t] =>
                 LET c == comments'[t][Len(comments'[t])]
                 IN /\ comments'[t] = Append(comments[t], c)
                    /\ c.kind = "status" => WonRun(attemptsLog, t, c.run_id)
       /\ \A w \in Workers :
             task'[w] # NoTask => WonRun(attemptsLog', number'[w], run_id'[w])
       /\ \A e \in attemptsLog' :
             ~e.won => (~HasStatusComment(e.ticket, e.run_id))'
      ]_vars

\* a worker lost the race for a ticket and its run_once is over; the ticket was
\* worked to its end by the winner, and the loser wrote nothing on it
C28_Witness ==
    \E e \in attemptsLog :
        /\ ~e.won
        /\ pc[e.worker] = "returning"
        /\ status[e.ticket] \in TerminalStatuses
        /\ WritesBy(e.worker, e.ticket) = {}
        /\ \E wr \in writes : wr.ticket = e.ticket /\ wr.by # e.worker

\* ------------------------------------------------------------ comments and status
\* C29: when run_once returns after a won claim, every status comment on the ticket
\* carries the run id of that claim and names the ticket's persisted status.
C29_CommentsAgreeWithStatus ==
    \A w \in Workers :
        Processed(w) =>
            \A i \in 1..Len(comments[number[w]]) :
                LET c == comments[number[w]][i]
                IN c.kind = "status" =>
                      (c.run_id = run_id[w] /\ c.status = status[number[w]])

\* ------------------------------------------------------------ order of finalization
\* C30: the move to in review is issued by a worker whose task returned success with
\* its final metrics captured and its work committed, that has pushed the branch,
\* opened the pull request and posted the in review comment of its run, and that met
\* no exception on the way; each of these steps is only taken after the one before.
C30_InReviewLast ==
    [][/\ \A wr \in writes' \ writes :
             wr.to = "in review" =>
                 LET w == wr.by
                 IN /\ task[w].result = "success"
                    /\ task[w].final_metrics
                    /\ task[w].did_commit /\ task[w].commits = 1
                    /\ task[w].pushed
                    /\ task[w].pr
                    /\ HasStatusCommentOf(wr.ticket, run_id[w], "in review")
                    /\ flags[w].handler = "success"
                    /\ ~flags[w].move_failed
       /\ \A t \in Tickets :
             (status'[t] = "in review" /\ status[t] # "in review") =>
                 \E wr \in writes' \ writes : wr.ticket = t /\ wr.to = "in review"
       /\ \A w \in Workers :
             /\ (task'[w].pushed /\ task'[w].result = "success") =>
                    (task'[w].final_metrics /\ task'[w].did_commit)
             /\ task'[w].pr => task'[w].pushed
             /\ (task'[w].did_commit /\ task'[w].result = "success") => task'[w].final_metrics
             /\ (pc'[w] \in AfterWin
                   /\ \E i \in 1..Len(comments'[number'[w]]) :
                         comments'[number'[w]][i] =
                             StatusComment(login[w], run_id'[w], "in review"))
                    => task'[w].pr
      ]_vars

\* a ticket is in review, and another worker's success never got there: its pull
\* request could not be created and its ticket ended in setup error
C30_Witness ==
    /\ \E wr \in writes : wr.to = "in review" /\ status[wr.ticket] = "in review"
    /\ \E w \in Workers :
          /\ Processed(w)
          /\ task[w].result = "success"
          /\ task[w].pushed
          /\ ~task[w].pr
          /\ status[number[w]] = "setup error"

\* ------------------------------------------------------------ claiming without end
\* Workers that poll for ever while every store call succeeds. Nothing is counted and
\* no history is kept, so that the cycles can repeat; a stream is followed up to its
\* first MaxStream comments, which hold every comment get_first_claim can return.
MaxStream == 3

\* the claim comment of a run that ended before these workers started: a worker that
\* died after claiming, or a ticket an operator put back to ready
EarlierClaim == ClaimComment("bot", "w0", <<"w0", 1>>)

\* comment_issue on a stream followed up to MaxStream comments
KeepOldest(stream, c) == IF Len(stream) < MaxStream THEN Append(stream, c) ELSE stream

\* the run ids some followed comment or some worker holds
RunsInUse ==
    UNION {{comments[t][i].run_id : i \in 1..Len(comments[t])} : t \in Tickets}
        \cup {run_id[w] : w \in Workers}

\* uuid.uuid4().hex: a token nothing in the system holds
LiveUuid(w) ==
    LET free == {n \in 1..(MaxStream * Cardinality(Tickets) + 2) : <<w, n>> \notin RunsInUse}
    IN <<w, CHOOSE n \in free : \A m \in free : n <= m>>

\* what no step of these workers touches: the settings, the counters, the histories
still == <<config, nextRun, cycles, task, attemptsLog, writes, flags>>

\* run_once up to the for loop
LivePoll(w) ==
    /\ pc[w] = "poll"
    /\ ready' = [ready EXCEPT ![w] = list_ready_issues]
    /\ idx' = [idx EXCEPT ![w] = 1]
    /\ pc' = [pc EXCEPT ![w] = IF list_ready_issues = <<>> THEN "returning" ELSE "claim_post"]
    /\ UNCHANGED <<shared, number, run_id, viewer, still>>

\* the head of the for loop and the first call of _claim_issue
LivePostClaim(w) ==
    /\ pc[w] = "claim_post"
    /\ number' = [number EXCEPT ![w] = ready[w][idx[w]]]
    /\ run_id' = [run_id EXCEPT ![w] = LiveUuid(w)]
    /\ comments' = [comments EXCEPT ![ready[w][idx[w]]] =
                       KeepOldest(@, ClaimComment(login[w], w, LiveUuid(w)))]
    /\ pc' = [pc EXCEPT ![w] = "claim_read"]
    /\ UNCHANGED <<status, ready, idx, viewer, still>>

\* the rest of _claim_issue, and `continue` after a loss
LiveReadClaim(w) ==
    /\ pc[w] = "claim_read"
    /\ LET first_claim == get_first_claim(comments[number[w]])
       IN /\ viewer' = [viewer EXCEPT ![w] = IF first_claim.found THEN login[w] ELSE @]
          /\ IF ClaimWins(first_claim, login[w], run_id[w])
             THEN pc' = [pc EXCEPT ![w] = "move_in_progress"] /\ idx' = idx
             ELSE IF idx[w] < Len(ready[w])
                  THEN pc' = [pc EXCEPT ![w] = "claim_post"]
                       /\ idx' = [idx EXCEPT ![w] = @ + 1]
                  ELSE pc' = [pc EXCEPT ![w] = "returning"] /\ idx' = idx
    /\ UNCHANGED <<shared, ready, number, run_id, still>>

\* the first statement of the try block
LiveMoveInProgress(w) ==
    /\ pc[w] = "move_in_progress"
    /\ status' = [status EXCEPT ![number[w]] = "in progress"]
    /\ pc' = [pc EXCEPT ![w] = "run_task"]
    /\ UNCHANGED <<comments, ready, idx, number, run_id, viewer, still>>

\* the rest of the try block and its except clause: the task runs, and one of the
\* three handlers posts its status comment and moves the ticket to its status
LiveRunTask(w) ==
    /\ pc[w] = "run_task"
    /\ \E st \in TerminalStatuses :
          /\ comments' = [comments EXCEPT ![number[w]] =
                             KeepOldest(@, StatusComment(login[w], run_id[w], st))]
          /\ status' = [status EXCEPT ![number[w]] = st]
    /\ pc' = [pc EXCEPT ![w] = "returning"]
    /\ UNCHANGED <<ready, idx, number, run_id, viewer, still>>

\* main without --once: (sleep and) call run_once again
LiveMainLoop(w) ==
    /\ pc[w] = "returning"
    /\ pc' = [pc EXCEPT ![w] = "poll"]
    /\ ready' = [ready EXCEPT ![w] = <<>>]
    /\ idx' = [idx EXCEPT ![w] = 0]
    /\ number' = [number EXCEPT ![w] = 0]
    /\ run_id' = [run_id EXCEPT ![w] = NoRun]
    /\ UNCHANGED <<shared, viewer, still>>

LiveStep(w) ==
    \/ LivePoll(w)
    \/ LivePostClaim(w)
    \/ LiveReadClaim(w)
    \/ LiveMoveInProgress(w)
    \/ LiveRunTask(w)
    \/ LiveMainLoop(w)

\* every ticket ready; a ticket may carry the claim comment of an earlier run
InitLive ==
    /\ status = [t \in Tickets |-> "ready"]
    /\ comments \in [Tickets -> {<<>>, <<EarlierClaim>>}]
    /\ nextRun = [w \in Workers |-> 0]
    /\ pc = [w \in Workers |-> "poll"]
    /\ cycles = [w \in Workers |-> 0]
    /\ ready = [w \in Workers |-> <<>>]
    /\ idx = [w \in Workers |-> 0]
    /\ number = [w \in Workers |-> 0]
    /\ run_id = [w \in Workers |-> NoRun]
    /\ viewer = [w \in Workers |-> ""]
    /\ attemptsLog = {}
    /\ writes = {}
    /\ flags = [w \in Workers |-> NoFlags]
    /\ body = [t \in Tickets |-> GoodBody]
    /\ login \in {f \in [Workers -> Logins] : f["w1"] = "bot"}
    /\ once = [w \in Workers |-> FALSE]
    /\ task = [w \in Workers |-> NoTask]
    /\ call = NoCall

NextLive ==
    \E w \in Workers :
        \/ LivePoll(w)
        \/ LivePostClaim(w)
        \/ LiveReadClaim(w)
        \/ LiveMoveInProgress(w)
        \/ LiveRunTask(w)
        \/ LiveMainLoop(w)

\* every worker is a running process: a step it can take, it takes
SpecLive == InitLive /\ [][NextLive]_vars /\ \A w \in Workers : WF_vars(LiveStep(w))

\* C27: every ticket in status ready is eventually claimed and moved out of ready,
\* also when it already carries a claim comment of an earlier run.
C27_ReadyEventuallyClaimed ==
    \A t \in Tickets : (status[t] = "ready") ~> (status[t] # "ready")

\* ------------------------------------------------------------ building the task
\* a Python value: its type and its repr
Val(t, r) == [t |-> t, r |-> r]
None == Val("NoneType", "None")

\* what Worker.__init__ reads from the environment (the defaults among them)
WorkerConfigs ==
    [system : {Val("str", "n150"), Val("str", "t3k")},
     top1_min : {Val("float", "0.9"), Val("float", "0.95")},
     top5_min : {Val("float", "0.97"), Val("float", "0.99")},
     max_attempts : {Val("int", "10"), Val("int", "2")},
     owner : {Val("str", "yieldthought")},
     repo : {Val("str", "ttnn_models")},
     tmp_root : {None, Val("str", "/tmp/yt")},
     shell : {Val("Shell", "shell")},
     logger : {Val("Logger", "yieldthought.worker")}]

\* what _run_task parses from the issue body, after `or None` and _int_or_none
IssueFields ==
    [hf_model_id : {Val("str", "org/model")},
     hf_revision : {None, Val("str", "main")},
     prefill_len : {None, Val("int", "128")},
     decode_len : {None, Val("int", "32")},
     batch : {None, Val("int", "1")}]

\* the positional arguments of the FunctionalBringupTask(...) call in _run_task
RunTaskArgs(self, fields) ==
    << Val("str", "branch"), fields.hf_model_id, fields.hf_revision, self.system,
       self.top1_min, self.top5_min, self.max_attempts, self.owner, self.repo,
       self.tmp_root, fields.prefill_len, fields.decode_len, fields.batch, self.shell,
       self.logger >>

\* the parameters of FunctionalBringupTask.__init__ after self, in order
InitParams ==
    << "branch", "hf_model_id", "system", "top1_min", "top5_min", "max_attempts",
       "owner", "repo", "tmp_root", "prefill_len", "decode_len", "batch", "shell",
       "keep_tmp", "logger" >>

\* a positional call: the i-th argument goes to the i-th parameter
Bind(params, args) ==
    [name \in {params[i] : i \in 1..Len(params)} |->
        args[CHOOSE i \in 1..Len(params) : params[i] = name]]

\* FunctionalBringupTask.__init__ on its bound parameters: the attributes it sets and
\* the budget it hands to Task.__init__; _render_prompt raises TypeError when the
\* system it is to put into the template is not a str
__init__(bound) ==
    IF bound.system.t # "str" THEN [kind |-> "raised", task |-> bound]
    ELSE [kind |-> "built", task |-> bound]

\* set_up up to the clone: self.shell.run raises AttributeError on anything that is
\* not a Shell
ClonesWith(shell) == shell.t = "Shell"

\* the worker's configuration and the issue fields the task is built from
InitBuild ==
    /\ Quiet
    /\ task = [w \in Workers |-> NoTask]
    /\ \E self \in WorkerConfigs, fields \in IssueFields :
          call = [fn |-> "_run_task", self |-> self, fields |-> fields, done |-> FALSE,
                  result |-> [kind |-> "none", task |-> <<>>]]

\* _run_task from the constructor call on
ApplyBuild ==
    /\ call.fn = "_run_task"
    /\ ~call.done
    /\ call' = [call EXCEPT
                   !.done = TRUE,
                   !.result = __init__(Bind(InitParams, RunTaskArgs(call.self, call.fields)))]
    /\ UNCHANGED <<fleet, task>>

SpecBuild == InitBuild /\ [][ApplyBuild]_vars

\* C31: the task _run_task builds has the worker's max attempts as its budget, the
\* worker's system label as its system and the worker's top1 and top5 thresholds as
\* its thresholds, and a shell to run with.
C31_ConfigReachesTask ==
    call.done =>
        /\ call.result.kind = "built"
        /\ call.result.task.max_attempts = call.self.max_attempts
        /\ call.result.task.system = call.self.system
        /\ call.result.task.top1_min = call.self.top1_min
        /\ call.result.task.top5_min = call.self.top5_min
        /\ ClonesWith(call.result.task.shell)

====
